---------------------------- MODULE Spec2Model ----------------------------
(***************************************************************************)
(* Certificate-chain acquisition and normalisation engine of cert-check.   *)
(*                                                                         *)
(*   server/src/utils/certParser.js  field classifier (native path)        *)
(*   server/src/utils/tlsClient.js   connection strategist, chain walker,  *)
(*                                   fallback orchestrator, text extractor *)
(*                                                                         *)
(* JavaScript values are modelled as follows.  A missing / undefined / ''  *)
(* string is "", a missing / undefined / 0 number is 0 (both are falsy in  *)
(* the source, and every test the source makes on them is a truthiness     *)
(* test).  Objects are records, arrays are sequences.  The Chinese string  *)
(* literals of the source are written in English.                          *)
(***************************************************************************)
EXTENDS Naturals, Sequences, FiniteSets, TLC

(***************************************************************************)
(* Strings.  TLC treats a string as a sequence of characters for Len,      *)
(* SubSeq and \o, which is enough for the String methods the source uses.  *)
(***************************************************************************)

\* String.prototype.includes
Includes(s, sub) ==
  \E i \in 1..(Len(s) + 1) :
     /\ i + Len(sub) - 1 <= Len(s)
     /\ SubSeq(s, i, i + Len(sub) - 1) = sub

\* String.prototype.startsWith
StartsWith(s, pre) == Len(pre) <= Len(s) /\ SubSeq(s, 1, Len(pre)) = pre

\* String.prototype.indexOf, 1-based; 0 when sub does not occur
IndexOf(s, sub) ==
  IF Includes(s, sub)
  THEN CHOOSE i \in 1..(Len(s) + 1) :
         /\ i + Len(sub) - 1 <= Len(s)
         /\ SubSeq(s, i, i + Len(sub) - 1) = sub
         /\ \A j \in 1..(i - 1) : SubSeq(s, j, j + Len(sub) - 1) # sub
  ELSE 0

LowerChar(c) ==
  CASE c = "A" -> "a" [] c = "B" -> "b" [] c = "C" -> "c" [] c = "D" -> "d"
    [] c = "E" -> "e" [] c = "F" -> "f" [] c = "G" -> "g" [] c = "H" -> "h"
    [] c = "I" -> "i" [] c = "J" -> "j" [] c = "K" -> "k" [] c = "L" -> "l"
    [] c = "M" -> "m" [] c = "N" -> "n" [] c = "O" -> "o" [] c = "P" -> "p"
    [] c = "Q" -> "q" [] c = "R" -> "r" [] c = "S" -> "s" [] c = "T" -> "t"
    [] c = "U" -> "u" [] c = "V" -> "v" [] c = "W" -> "w" [] c = "X" -> "x"
    [] c = "Y" -> "y" [] c = "Z" -> "z" [] OTHER -> c

\* String.prototype.toLowerCase
RECURSIVE ToLowerCase(_)
ToLowerCase(s) ==
  IF Len(s) = 0 THEN ""
  ELSE LowerChar(SubSeq(s, 1, 1)) \o ToLowerCase(SubSeq(s, 2, Len(s)))

\* String.prototype.trim (spaces only)
RECURSIVE Trim(_)
Trim(s) ==
  IF Len(s) = 0 THEN ""
  ELSE IF SubSeq(s, 1, 1) = " " THEN Trim(SubSeq(s, 2, Len(s)))
  ELSE IF SubSeq(s, Len(s), Len(s)) = " " THEN Trim(SubSeq(s, 1, Len(s) - 1))
  ELSE s

\* String.prototype.split(sep): the sequence of the pieces
RECURSIVE Split(_, _)
Split(s, sep) ==
  LET i == IndexOf(s, sep)
  IN  IF i = 0 THEN <<s>>
      ELSE <<SubSeq(s, 1, i - 1)>> \o Split(SubSeq(s, i + Len(sep), Len(s)), sep)

(***************************************************************************)
(* certParser.js                                                           *)
(***************************************************************************)

SM2_CURVES == <<"SM2", "sm2p256v1", "1.2.156.10197.1.301">>

EV_OIDS ==
  << "2.23.140.1.1", "1.3.6.1.4.1.34697.2.1", "1.3.6.1.4.1.6449.1.2.1.5.1",
     "2.16.840.1.114412.2.1", "2.16.840.1.114028.10.1.2", "1.3.6.1.4.1.14370.1.6",
     "1.3.6.1.4.1.4146.1.1", "2.16.840.1.114413.1.7.23.3",
     "2.16.840.1.114414.1.7.23.3", "2.16.756.1.89.1.2.1.1",
     "1.3.6.1.4.1.8024.0.2.100.1.2", "1.2.616.1.113527.2.5.1.1",
     "1.3.6.1.4.1.23223.1.1.1", "2.16.840.1.113733.1.7.23.6",
     "2.16.840.1.114404.1.1.2.4.1", "1.3.6.1.4.1.17326.10.14.2.1.2",
     "1.3.6.1.4.1.22234.2.5.2.3.1" >>

\* ECC_CURVES[curve] || curve
ECC_CURVES(curve) ==
  CASE curve = "prime256v1" -> "P-256 (secp256r1)"
    [] curve = "secp256r1"  -> "P-256 (secp256r1)"
    [] curve = "secp384r1"  -> "P-384 (secp384r1)"
    [] curve = "secp521r1"  -> "P-521 (secp521r1)"
    [] curve = "secp256k1"  -> "secp256k1 (Bitcoin)"
    [] OTHER                -> curve

\* a || b on numbers
OrNum(a, b) == IF a # 0 THEN a ELSE b

\* a || b on strings
OrStr(a, b) == IF a # "" THEN a ELSE b

IsSM2Curve(curve) ==
  \E i \in 1..Len(SM2_CURVES) :
     Includes(ToLowerCase(curve), ToLowerCase(SM2_CURVES[i]))

EccBitsOfCurve(curve) ==
  IF Includes(curve, "384") THEN 384
  ELSE IF Includes(curve, "521") THEN 521
  ELSE IF Includes(curve, "448") THEN 448
  ELSE 256

parsePublicKeyAlgorithm(cert) ==
  IF cert.asn1Curve # "" THEN
    IF IsSM2Curve(cert.asn1Curve)
    THEN [type |-> "SM2", typeName |-> "GM SM2", algorithm |-> "SM2",
          curve |-> cert.asn1Curve, bits |-> 256,
          description |-> "Chinese commercial cipher"]
    ELSE [type |-> "ECC", typeName |-> "elliptic curve", algorithm |-> "ECDSA",
          curve |-> ECC_CURVES(cert.asn1Curve),
          bits |-> OrNum(cert.bits, EccBitsOfCurve(cert.asn1Curve)),
          description |-> "ECC (" \o ECC_CURVES(cert.asn1Curve) \o ")"]
  ELSE IF cert.modulusLength # 0 THEN
    [type |-> "RSA", typeName |-> "asymmetric", algorithm |-> "RSA",
     curve |-> "", bits |-> OrNum(cert.bits, cert.modulusLength * 4),
     description |-> "RSA " \o ToString(OrNum(cert.bits, cert.modulusLength * 4))]
  ELSE IF cert.pubkeyLength = 32 \/ cert.pubkeyLength = 44 THEN
    [type |-> "ECC", typeName |-> "elliptic curve", algorithm |-> "Ed25519",
     curve |-> "Ed25519", bits |-> 256,
     description |-> "Edwards-curve (Ed25519)"]
  ELSE
    [type |-> "Unknown", typeName |-> "unknown", algorithm |-> "Unknown",
     curve |-> "", bits |-> OrNum(cert.bits, 0),
     description |-> "unknown algorithm"]

parseSignatureAlgorithm(cert) ==
  LET pubKey == parsePublicKeyAlgorithm(cert)
  IN  CASE pubKey.type = "SM2" -> [algorithm |-> "SM3withSM2", description |-> "GM signature"]
        [] pubKey.type = "ECC" -> [algorithm |-> "ECDSA with SHA-256", description |-> "ECC signature"]
        [] pubKey.type = "RSA" -> [algorithm |-> "SHA-256 with RSA", description |-> "RSA signature"]
        [] OTHER               -> [algorithm |-> "Unknown", description |-> "unknown"]

\* EV_OIDS.some(oid => infoAccessStr.includes(oid))
HasEVOID(infoAccessStr) ==
  \E i \in 1..Len(EV_OIDS) : Includes(infoAccessStr, EV_OIDS[i])

parseValidationLevel(cert) ==
  LET subject        == cert.subject
      hasEVOID       == HasEVOID(cert.infoAccess)
      hasFullOrgInfo == subject.O # "" /\ subject.L # ""
                        /\ (subject.ST # "" \/ subject.S # "") /\ subject.C # ""
      hasEVFields    == subject.businessCategory # "" \/ subject.serialNumber # ""
  IN  IF hasEVOID \/ (hasFullOrgInfo /\ hasEVFields)
      THEN [level |-> "EV", name |-> "Extended Validation", nameCN |-> "EV",
            description |-> "highest level", color |-> "green"]
      ELSE IF subject.O # ""
      THEN [level |-> "OV", name |-> "Organization Validation", nameCN |-> "OV",
            description |-> "domain and organization", color |-> "blue"]
      ELSE [level |-> "DV", name |-> "Domain Validation", nameCN |-> "DV",
            description |-> "domain only", color |-> "orange"]

parseSubject(subject) ==
  [commonName |-> subject.CN, organization |-> subject.O,
   organizationalUnit |-> subject.OU, country |-> subject.C,
   state |-> subject.ST, locality |-> subject.L]

\* name.split(':') destructured into [type, value]
AltName(name) ==
  LET parts == Split(name, ":")
  IN  [type |-> parts[1], value |-> IF Len(parts) >= 2 THEN parts[2] ELSE ""]

parseAltNames(subjectaltname) ==
  IF subjectaltname = "" THEN <<>>
  ELSE LET names == Split(subjectaltname, ", ")
       IN  [i \in 1..Len(names) |-> AltName(names[i])]

\* new Date(dateStr): the timestamps the model's certificates carry.  Any
\* other text is an Invalid Date.
DateParses(dateStr) ==
  dateStr \in {"Jan 1 00:00:00 2024 GMT", "Dec 31 23:59:59 2034 GMT"}

ISODate(dateStr) ==
  IF dateStr = "Jan 1 00:00:00 2024 GMT" THEN "2024-01-01T00:00:00.000Z"
  ELSE "2034-12-31T23:59:59.000Z"

\* new Date(dateStr).toISOString() throws RangeError on an Invalid Date
formatDateThrows(dateStr) == dateStr # "" /\ ~DateParses(dateStr)

\* null is ""
formatDate(dateStr) == IF dateStr = "" THEN "" ELSE ISODate(dateStr)

parseCertificateThrows(cert) ==
  formatDateThrows(cert.valid_from) \/ formatDateThrows(cert.valid_to)

parseCertificate(cert) ==
  [subject            |-> parseSubject(cert.subject),
   issuer             |-> parseSubject(cert.issuer),
   validFrom          |-> formatDate(cert.valid_from),
   validTo            |-> formatDate(cert.valid_to),
   serialNumber       |-> cert.serialNumber,
   fingerprint        |-> cert.fingerprint,
   fingerprint256     |-> cert.fingerprint256,
   subjectAltNames    |-> parseAltNames(cert.subjectaltname),
   bits               |-> OrNum(cert.bits, parsePublicKeyAlgorithm(cert).bits),
   publicKey          |-> parsePublicKeyAlgorithm(cert),
   signatureAlgorithm |-> parseSignatureAlgorithm(cert),
   validationLevel    |-> parseValidationLevel(cert),
   version            |-> cert.version,
   raw                |-> cert.raw]

(***************************************************************************)
(* tlsClient.js: text-based certificate extractor                          *)
(*                                                                         *)
(* The text printed by `x509 -noout -text -fingerprint -sha256` is a       *)
(* record of the lines the extractor's patterns look for, each holding the *)
(* text its capture group would capture ("" or 0 when no line matches),    *)
(* and `other`, the rest of the text.                                      *)
(***************************************************************************)

\* obj.field, undefined ("") when the object has no such field
Field(obj, f) == IF f \in DOMAIN obj THEN obj[f] ELSE ""

UpperHex(c) ==
  CASE c = "a" -> "A" [] c = "b" -> "B" [] c = "c" -> "C" [] c = "d" -> "D"
    [] c = "e" -> "E" [] c = "f" -> "F" [] OTHER -> c

\* serialMatch[1].replace(/:/g, '').toUpperCase()
RECURSIVE SerialOfText(_)
SerialOfText(s) ==
  IF Len(s) = 0 THEN ""
  ELSE (IF SubSeq(s, 1, 1) = ":" THEN "" ELSE UpperHex(SubSeq(s, 1, 1)))
       \o SerialOfText(SubSeq(s, 2, Len(s)))

\* the length of the run of spaces of s that starts at position i
RECURSIVE Spaces(_, _)
Spaces(s, i) ==
  IF i <= Len(s) /\ SubSeq(s, i, i) = " " THEN 1 + Spaces(s, i + 1) ELSE 0

\* the length of the run of non-comma characters of s that starts at position i
RECURSIVE NonCommas(_, _)
NonCommas(s, i) ==
  IF i <= Len(s) /\ SubSeq(s, i, i) # "," THEN 1 + NonCommas(s, i + 1) ELSE 0

\* whether /key\s*=\s*([^,]+)/i matches dn at position i
DNMatchAt(dn, key, i) ==
  LET k  == Len(key)
      e  == i + k + Spaces(dn, i + k)
      v  == e + 1
  IN  /\ i + k - 1 <= Len(dn)
      /\ ToLowerCase(SubSeq(dn, i, i + k - 1)) = ToLowerCase(key)
      /\ e <= Len(dn) /\ SubSeq(dn, e, e) = "="
      /\ NonCommas(dn, v) > 0

\* dn.match(/key\s*=\s*([^,]+)/i)?.[1]?.trim(), "" when there is no match.
\* The group starts right after the "=": \s* gives back the spaces it took
\* only when [^,]+ would otherwise be empty, and trim removes them anyway.
DNMatch(dn, key) ==
  IF \E i \in 1..Len(dn) : DNMatchAt(dn, key, i)
  THEN LET i == CHOOSE j \in 1..Len(dn) :
                  DNMatchAt(dn, key, j) /\ \A h \in 1..(j - 1) : ~DNMatchAt(dn, key, h)
           v == i + Len(key) + Spaces(dn, i + Len(key)) + 1
       IN  Trim(SubSeq(dn, v, v + NonCommas(dn, v) - 1))
  ELSE ""

parseDNFromText(dn) ==
  IF dn = "" THEN [commonName |-> ""]
  ELSE [commonName   |-> OrStr(DNMatch(dn, "CN"), OrStr(DNMatch(dn, "O"), DNMatch(dn, "OU"))),
        organization |-> DNMatch(dn, "O"),
        country      |-> DNMatch(dn, "C")]

\* date.toISOString().replace('T', ' ').substring(0, 19)
formatCertDate(dateStr) ==
  IF dateStr = "" THEN ""
  ELSE IF ~DateParses(Trim(dateStr)) THEN Trim(dateStr)
  ELSE LET iso == ISODate(Trim(dateStr))
       IN  SubSeq(iso, 1, 10) \o " " \o SubSeq(iso, 12, 19)

\* s.replace(/^dns:/i, '').trim()
StripDNS(s) == Trim(SubSeq(s, 5, Len(s)))

IsDNSName(s) == StartsWith(ToLowerCase(s), "dns:")

NonEmpty(s) == s # ""

\* the DNS names of the Subject Alternative Name line
SANOfText(san) ==
  IF san = "" THEN <<>>
  ELSE LET parts   == Split(san, ",")
           trimmed == [i \in 1..Len(parts) |-> Trim(parts[i])]
           dns     == SelectSeq(trimmed, IsDNSName)
           names   == [i \in 1..Len(dns) |-> StripDNS(dns[i])]
       IN  SelectSeq(names, NonEmpty)

\* result.stdout + result.stderr, as far as String.includes can tell
TextOf(text) ==
  text.pubKeyAlgo \o " " \o text.curve \o " " \o text.sigAlgo \o " " \o text.other

IsGMText(text) ==
  \/ Includes(ToLowerCase(text.pubKeyAlgo), "sm2")
  \/ Includes(ToLowerCase(text.curve), "sm2")
  \/ Includes(ToLowerCase(TextOf(text)), "sm2p256v1")
  \/ Includes(ToLowerCase(TextOf(text)), "sm2-with-sm3")

IsECCText(text) ==
  /\ ~IsGMText(text)
  /\ (Includes(text.pubKeyAlgo, "EC") \/ Includes(ToLowerCase(text.pubKeyAlgo), "ec"))

BitsOfText(text) ==
  IF text.keySize # 0 THEN text.keySize ELSE IF IsGMText(text) THEN 256 ELSE 2048

PublicKeyOfText(text) ==
  IF IsGMText(text)
  THEN [type |-> "SM2", typeName |-> "GM SM2", algorithm |-> "SM2",
        curve |-> OrStr(text.curve, "sm2p256v1"), bits |-> 256]
  ELSE IF IsECCText(text)
  THEN [type |-> "ECC", typeName |-> "elliptic curve", algorithm |-> "ECDSA",
        curve |-> text.curve, bits |-> BitsOfText(text)]
  ELSE [type |-> "RSA", typeName |-> "asymmetric", algorithm |-> "RSA",
        curve |-> "", bits |-> BitsOfText(text)]

SigInfoOfText(text) ==
  IF \/ Includes(ToLowerCase(text.sigAlgo), "sm2")
     \/ Includes(ToLowerCase(text.sigAlgo), "sm3")
  THEN [algorithm |-> "SM3withSM2", description |-> "GM signature"]
  ELSE [algorithm |-> text.sigAlgo, description |-> text.sigAlgo]

SubjectOfText(text) ==
  IF text.subject # "" THEN parseDNFromText(text.subject) ELSE [commonName |-> "Unknown"]

IssuerOfText(text) ==
  IF text.issuer # "" THEN parseDNFromText(text.issuer) ELSE [commonName |-> "Unknown"]

ValidationLevelOfText(text) ==
  IF Field(SubjectOfText(text), "organization") # ""
  THEN [level |-> "OV", nameCN |-> "OV", description |-> "domain and organization",
        color |-> "blue"]
  ELSE [level |-> "DV", nameCN |-> "DV", description |-> "domain only",
        color |-> "green"]

\* the record parsePEMCertificate returns when execOpenSSL resolved with text
parsePEMCertificate(pem, text) ==
  [subject            |-> SubjectOfText(text),
   issuer             |-> IssuerOfText(text),
   validFrom          |-> formatCertDate(text.notBefore),
   validTo            |-> formatCertDate(text.notAfter),
   serialNumber       |-> SerialOfText(text.serial),
   fingerprint        |-> "",
   fingerprint256     |-> text.fingerprint,
   subjectAltNames    |-> SANOfText(text.san),
   bits               |-> BitsOfText(text),
   publicKey          |-> PublicKeyOfText(text),
   signatureAlgorithm |-> SigInfoOfText(text),
   validationLevel    |-> ValidationLevelOfText(text),
   version            |-> 3,
   rawPEM             |-> pem,
   isGM               |-> IsGMText(text)]

(***************************************************************************)
(* Bounds of the model, and the program's constants                        *)
(***************************************************************************)

\* the longest issuer path a peer presents
MaxChain == 12

\* the most PEM blocks in the toolkit's output
MaxBlocks == 3

\* TLS_CONFIGS.length
NumConfigs == 3

\* if (certificates.length > 10) break;
MaxChainEntries == 10

(***************************************************************************)
(* The environment: what a peer presents to the native stack, and what the *)
(* external toolkit prints.                                                *)
(***************************************************************************)

NoDN == [CN |-> "", O |-> "", OU |-> "", C |-> "", ST |-> "", S |-> "", L |-> "",
         businessCategory |-> "", serialNumber |-> ""]

\* an object of tls getPeerCertificate(true), without its issuerCertificate link
RawCert(subject, issuer, curve, modulusLength, bits, pubkeyLength, infoAccess, validFrom) ==
  [subject |-> subject, issuer |-> issuer, asn1Curve |-> curve,
   modulusLength |-> modulusLength, bits |-> bits, pubkeyLength |-> pubkeyLength,
   infoAccess |-> infoAccess, valid_from |-> validFrom,
   valid_to |-> "Dec 31 23:59:59 2034 GMT", serialNumber |-> "0A1B",
   fingerprint |-> "F1", fingerprint256 |-> "", subjectaltname |-> "",
   version |-> 3, raw |-> "MIIB"]

LeafKinds == {"rsa", "sm2", "self"}

CAKinds == {"rsaCA", "sm2CA"}

\* the certificates the peers of the model present
NativeCertOfKind(kind) ==
  CASE kind = "rsa" ->
         [RawCert([NoDN EXCEPT !.CN = "a.example"], [NoDN EXCEPT !.CN = "Example CA"],
                  "", 512, 2048, 0, "", "Jan 1 00:00:00 2024 GMT")
            EXCEPT !.subjectaltname = "DNS:a.example, DNS:www.a.example"]
    [] kind = "sm2" ->
         RawCert([NoDN EXCEPT !.CN = "gm.example", !.O = "GM Org"],
                 [NoDN EXCEPT !.CN = "GM CA"],
                 "SM2", 0, 256, 0, "", "Jan 1 00:00:00 2024 GMT")
    [] kind = "self" ->
         RawCert([NoDN EXCEPT !.CN = "self.example"], [NoDN EXCEPT !.CN = "self.example"],
                 "prime256v1", 0, 256, 0, "", "Jan 1 00:00:00 2024 GMT")
    [] kind = "badtime" ->
         RawCert([NoDN EXCEPT !.CN = "b.example"], [NoDN EXCEPT !.CN = "Example CA"],
                 "", 512, 2048, 0, "", "Bad time value")
    [] kind = "rsaCA" ->
         RawCert([NoDN EXCEPT !.CN = "Example CA", !.O = "Example Trust"],
                 [NoDN EXCEPT !.CN = "Example Root", !.O = "Example Trust"],
                 "", 1024, 4096, 0, "", "Jan 1 00:00:00 2024 GMT")
    [] kind = "sm2CA" ->
         RawCert([NoDN EXCEPT !.CN = "GM CA", !.O = "GM Trust"],
                 [NoDN EXCEPT !.CN = "GM Root", !.O = "GM Trust"],
                 "sm2p256v1", 0, 256, 0, "", "Jan 1 00:00:00 2024 GMT")

(***************************************************************************)
(* The issuer graph reachable from a peer certificate: a path of `len`     *)
(* distinct certificate objects 1..len, the last of which has no           *)
(* issuerCertificate (tail = 0) or one that points back to object `tail`   *)
(* (tail = len: the certificate is its own issuer).  Every graph reachable *)
(* along one pointer per object has this shape.  Distinct objects have     *)
(* distinct SHA-256 fingerprints.                                          *)
(***************************************************************************)
PeerGraphs ==
  { [len |-> l, tail |-> t, leaf |-> k, ca |-> c] :
      l \in 1..MaxChain, t \in 0..MaxChain, k \in LeafKinds, c \in CAKinds }

\* peers with a certificate whose validity the platform prints as "Bad time value"
BadTimePeers ==
  { [len |-> 1, tail |-> 0, leaf |-> "badtime", ca |-> "rsaCA"],
    [len |-> 2, tail |-> 0, leaf |-> "rsa", ca |-> "badtime"] }

Peers == { g \in PeerGraphs : g.tail <= g.len } \cup BadTimePeers

\* cert.issuerCertificate, 0 when absent
IssuerCertificate(peer, i) == IF i < peer.len THEN i + 1 ELSE peer.tail

\* the certificate object i of the peer's graph
CertAt(peer, i) ==
  [NativeCertOfKind(IF i = 1 THEN peer.leaf ELSE peer.ca)
     EXCEPT !.fingerprint256 = "FP:" \o ToString(i)]

(***************************************************************************)
(* tlsClient.js: chain walker (getCertificateChain, lines 68-99)           *)
(***************************************************************************)

\* a typing that takes every issuer link back into the chain for a root
ChainTypeRootOnBackLink(peer, i, count) ==
  IF count = 0 THEN "leaf"
  ELSE IF IssuerCertificate(peer, i) <= i THEN "root"
  ELSE "intermediate"

\* the type the walk gives the certificate object i, `count` entries collected
ChainType(peer, i, count) ==
  IF count = 0 THEN "leaf"
  ELSE IF IssuerCertificate(peer, i) = i \/ IssuerCertificate(peer, i) = 0 THEN "root"
  ELSE "intermediate"

TypeName(type) ==
  CASE type = "leaf"         -> "server certificate"
    [] type = "root"         -> "root certificate"
    [] type = "intermediate" -> "intermediate certificate"
    [] type = "self-signed"  -> "self-signed certificate"

\* parsedCert.type = ...; parsedCert.typeName = ...
WithType(cert, type) ==
  [f \in DOMAIN cert \cup {"type", "typeName"} |->
     IF f = "type" THEN type ELSE IF f = "typeName" THEN TypeName(type) ELSE cert[f]]

\* if (certificates.length > 10) break;
CapReached(certificates) == Len(certificates) > MaxChainEntries

\* while (cert && !seen.has(cert.fingerprint256)) { ... }: the positions of
\* the objects the loop visits, from object i on
RECURSIVE WalkFrom(_, _, _, _)
WalkFrom(peer, i, seen, visited) ==
  IF i = 0 \/ CertAt(peer, i).fingerprint256 \in seen THEN visited
  ELSE LET visited2 == Append(visited, i)
       IN  IF CapReached(visited2) THEN visited2
           ELSE WalkFrom(peer, IssuerCertificate(peer, i),
                         seen \cup {CertAt(peer, i).fingerprint256}, visited2)

\* the certificates array after the loop
WalkChain(peer) ==
  LET visited == WalkFrom(peer, 1, {}, <<>>)
  IN  [n \in 1..Len(visited) |->
         WithType(parseCertificate(CertAt(peer, visited[n])),
                  ChainType(peer, visited[n], n - 1))]

\* parseCertificate throws on one of the certificates the loop visits
WalkThrows(peer) ==
  LET visited == WalkFrom(peer, 1, {}, <<>>)
  IN  \E n \in 1..Len(visited) : parseCertificateThrows(CertAt(peer, visited[n]))

\* IsSelfSigned without the certificates.length === 1 test
IsSelfSignedAnyLength(certificates) ==
  /\ Len(certificates) >= 1
  /\ Field(certificates[1].subject, "commonName") = Field(certificates[1].issuer, "commonName")

\* certificates.length === 1 && subject.commonName === issuer.commonName
IsSelfSigned(certificates) ==
  /\ Len(certificates) = 1
  /\ Field(certificates[1].subject, "commonName") = Field(certificates[1].issuer, "commonName")

\* if (isSelfSigned) { certificates[0].type = 'self-signed'; ... }
MarkSelfSigned(certificates) ==
  IF IsSelfSigned(certificates)
  THEN [certificates EXCEPT ![1] = WithType(certificates[1], "self-signed")]
  ELSE certificates

\* the object getCertificateChain returns (lines 106-115); `session` carries
\* socket.authorized, socket.authorizationError, getProtocol(), getCipher()
NativeResult(domain, port, peer, session) ==
  [domain       |-> domain,
   port         |-> port,
   certificates |-> MarkSelfSigned(WalkChain(peer)),
   isValid      |-> session.authorized,
   isSelfSigned |-> IsSelfSigned(WalkChain(peer)),
   error        |-> session.authorizationError,
   protocol     |-> session.protocol,
   cipher       |-> session.cipher]

(***************************************************************************)
(* tlsClient.js: parseOpenSSLOutput (lines 367-430)                        *)
(***************************************************************************)

\* a typing that tests for the last position before the first
TextChainTypeLastFirst(index, length) ==
  IF index = length THEN "root"
  ELSE IF index = 1 THEN "leaf"
  ELSE "intermediate"

\* .map((cert, index, arr) => ...) of lines 378-390
TextChainType(index, length) ==
  IF index = 1 THEN "leaf"
  ELSE IF index = length THEN "root"
  ELSE "intermediate"

\* what parsePEMCertificate returns from its catch block
Null == [null |-> TRUE]

\* a parsePEMCertificate promise that has not settled
Pending == [pending |-> TRUE]

\* parsedCerts.filter(Boolean)
NotNull(cert) == "null" \notin DOMAIN cert

TypedTextChain(parsedCerts) ==
  LET kept == SelectSeq(parsedCerts, NotNull)
  IN  [n \in 1..Len(kept) |-> WithType(kept[n], TextChainType(n, Len(kept)))]

\* certificates.some(c => c.isGM)
HasGMCert(certificates) == \E n \in 1..Len(certificates) : certificates[n].isGM

\* stderr.includes('NTLS') || stderr.includes('GMTLS') || stderr.includes('GMSSL') || hasGMCert
IsNTLS(stderr, certificates) ==
  \/ Includes(stderr, "NTLS") \/ Includes(stderr, "GMTLS") \/ Includes(stderr, "GMSSL")
  \/ HasGMCert(certificates)

\* the object parseOpenSSLOutput returns (lines 419-429); `out` carries the
\* s_client stderr and what the Protocol / Cipher patterns capture
TextResult(domain, port, parsedCerts, out) ==
  LET certificates == TypedTextChain(parsedCerts)
      hasGMCert    == HasGMCert(certificates)
      isNTLS       == IsNTLS(out.stderr, certificates)
      cipherName   == IF out.cipher = "" /\ hasGMCert THEN "SM2-WITH-SM4-SM3" ELSE out.cipher
  IN  [domain       |-> domain,
       port         |-> port,
       certificates |-> MarkSelfSigned(certificates),
       isValid      |-> TRUE,
       isSelfSigned |-> IsSelfSigned(certificates),
       isGMSSL      |-> isNTLS \/ hasGMCert,
       error        |-> "",
       protocol     |-> OrStr(out.protocol, IF isNTLS \/ hasGMCert THEN "GMTLS" ELSE "TLS"),
       cipher       |-> [name |-> OrStr(cipherName, "Unknown")]]

\* WithFallback with the reason taken from the toolkit result's error field
WithFallbackOwnError(result, message) ==
  [f \in DOMAIN result \cup {"fallback", "fallbackReason"} |->
     IF f = "fallback" THEN TRUE ELSE IF f = "fallbackReason" THEN result.error
     ELSE result[f]]

\* result.fallback = true; result.fallbackReason = nodeError.message
WithFallback(result, message) ==
  [f \in DOMAIN result \cup {"fallback", "fallbackReason"} |->
     IF f = "fallback" THEN TRUE ELSE IF f = "fallbackReason" THEN message ELSE result[f]]

(***************************************************************************)
(* What the toolkit prints                                                 *)
(***************************************************************************)

X509Text(subject, issuer, fingerprint, keySize, curve, pubKeyAlgo, sigAlgo, san, other) ==
  [subject |-> subject, issuer |-> issuer, notBefore |-> "Jan 1 00:00:00 2024 GMT",
   notAfter |-> " Dec 31 23:59:59 2034 GMT", serial |-> "0a:1b:2c",
   fingerprint |-> fingerprint, keySize |-> keySize, curve |-> curve,
   pubKeyAlgo |-> pubKeyAlgo, sigAlgo |-> sigAlgo, san |-> san, other |-> other]

\* `x509 -text` could not decode the block: no pattern matches its output
NoText ==
  [subject |-> "", issuer |-> "", notBefore |-> "", notAfter |-> "", serial |-> "",
   fingerprint |-> "", keySize |-> 0, curve |-> "", pubKeyAlgo |-> "", sigAlgo |-> "",
   san |-> "", other |-> "unable to load certificate"]

PemKinds == {"self", "sm2", "garbled"}

PemOfKind(kind) == "-----BEGIN CERTIFICATE-----" \o kind \o "-----END CERTIFICATE-----"

\* the text `x509 -text` prints for the PEM blocks of the model
TextOfPem(kind) ==
  CASE kind = "self" ->
         X509Text("C=US,CN=self.example", "C=US,CN=self.example", "AA:01", 2048, "",
                  "rsaEncryption", "sha256WithRSAEncryption",
                  "DNS:self.example, DNS:www.self.example, IP Address:192.0.2.1", "")
    [] kind = "sm2" ->
         X509Text("C=CN,O=GM Org,CN=gm.example", "C=CN,O=GM Trust", "BB:02", 256, "SM2",
                  "id-ecPublicKey", "SM2-with-SM3", "", "")
    [] kind = "garbled" -> NoText

\* parsePEMCertificate of each PEM block of the model, computed once
ParsedPem == [k \in PemKinds |-> parsePEMCertificate(PemOfKind(k), TextOfPem(k))]

\* the blocks that follow the first one in the output of the model: the
\* certificates a server sends along with its own
IssuerPemKinds == {"sm2", "garbled"}

\* the sequences of at most n PEM blocks
RECURSIVE BlockSeqs(_)
BlockSeqs(n) ==
  IF n = 0 THEN {<<>>}
  ELSE BlockSeqs(n - 1) \cup
       { Append(b, k) : b \in { c \in BlockSeqs(n - 1) : Len(c) = n - 1 },
                        k \in IF n = 1 THEN PemKinds ELSE IssuerPemKinds }

\* the s_client outputs of the model: the PEM blocks of stdout in order,
\* stderr, and what the Protocol and Cipher patterns capture
SClientOutputs ==
  { [blocks |-> b, stderr |-> "verify return:1", protocol |-> "", cipher |-> ""] :
      b \in BlockSeqs(MaxBlocks) }
  \cup
  { [blocks |-> b, stderr |-> "verify return:1", protocol |-> "TLSv1.2",
     cipher |-> "ECDHE-RSA-AES128-GCM-SHA256"] :
      b \in { c \in BlockSeqs(MaxBlocks) : Len(c) <= 1 } }
  \cup
  { [blocks |-> b, stderr |-> "NTLS verify return:1", protocol |-> "", cipher |-> ""] :
      b \in { c \in BlockSeqs(MaxBlocks) : Len(c) <= 1 } }

\* stdout.includes('BEGIN CERTIFICATE')
HasCertificateData(out) == out.blocks # <<>>

NoOutput == [blocks |-> <<>>, stderr |-> "", protocol |-> "", cipher |-> ""]

\* socket.authorized, socket.authorizationError, getProtocol(), getCipher()
Sessions ==
  { [authorized |-> TRUE, authorizationError |-> "", protocol |-> "TLSv1.3",
     cipher |-> [name |-> "TLS_AES_256_GCM_SHA384", standardName |-> "TLS_AES_256_GCM_SHA384",
                 version |-> "TLSv1.3"]],
    [authorized |-> FALSE, authorizationError |-> "UNABLE_TO_VERIFY_LEAF_SIGNATURE",
     protocol |-> "TLSv1.2",
     cipher |-> [name |-> "ECDHE-RSA-AES128-GCM-SHA256",
                 standardName |-> "TLS_ECDHE_RSA_WITH_AES_128_GCM_SHA256",
                 version |-> "TLSv1.2"]] }

\* getPeerCertificate returned an empty object
NoPeer == [len |-> 0, tail |-> 0, leaf |-> "none", ca |-> "none"]

\* no session was established
NoSession == [len |-> 0, tail |-> 0, leaf |-> "no session", ca |-> "no session"]

(***************************************************************************)
(* The state of one request (getCertificateChainWithFallback), and of the  *)
(* field classifier applied to one certificate.                            *)
(***************************************************************************)
VARIABLES
  pc,           \* where the request is: "idle", "connecting" (tryConnect pending),
                \* "ntls", "generic" (an s_client awaited), "parsing" (Promise.all
                \* awaited), "returned", "thrown"
  configIndex,  \* the configIndex of the tryConnect call whose socket is open
  sockets,      \* the sockets opened so far, in order: "connecting", or destroyed
                \* ("errored", "timedout", "released")
  peer,         \* what getPeerCertificate(true) returned on the established session
  nodeError,    \* nodeError.message of the catch at line 439
  procs,        \* the execOpenSSL subprocesses: 1 the NTLS s_client, 2 the
                \* generic s_client, 2 + i the x509 of PEM block i
  output,       \* `result` of getGMCertificateChain: what the last s_client
                \* that closed printed
  parsedCerts,  \* the parsePEMCertificate promises of Promise.all, in block order
  result,       \* the ChainResult the request resolved with
  thrown,       \* the message the request rejected with
  certIn,       \* field classifier: the certificate given
  certOut       \* field classifier: the record produced

vars == <<pc, configIndex, sockets, peer, nodeError, procs, output, parsedCerts,
          result, thrown, certIn, certOut>>

requestVars == <<pc, configIndex, sockets, peer, nodeError, procs, output,
                 parsedCerts, result, thrown>>

Domain == "example.com"

Port == 443

NoResult == [none |-> TRUE]

NoCert == [none |-> TRUE]

ProcIds == 1..(2 + MaxBlocks)

\* the subprocess of parsePEMCertificate for PEM block i
X509Proc(i) == 2 + i

\* a subprocess of execOpenSSL: the process, its timer and its promise
NoProc   == [proc |-> "none", timer |-> "none", promise |-> "none"]

\* spawn(OPENSSL_CMD, args); setTimeout(...)
Spawned  == [proc |-> "running", timer |-> "armed", promise |-> "pending"]

\* proc.on('close'): clearTimeout(timer); resolve(...)
Closed   == [proc |-> "exited", timer |-> "cleared", promise |-> "resolved"]

\* proc.on('error'): clearTimeout(timer); reject(err)
Errored  == [proc |-> "failed", timer |-> "cleared", promise |-> "rejected"]

\* a timer that rejects and leaves the subprocess running
TimedOutNoKill == [proc |-> "running", timer |-> "fired", promise |-> "rejected"]

\* the timer: proc.kill(); reject(...)
TimedOut == [proc |-> "killed", timer |-> "fired", promise |-> "rejected"]

\* handlers that leave the socket of the tryConnect call in flight as it is
KeepCurrent(how) == sockets

\* socket.destroy() on the socket of the tryConnect call in flight, in the
\* 'error' handler ("errored"), in the 'timeout' handler ("timedout") or in
\* the finally of getCertificateChain ("released")
DestroyCurrent(how) == [sockets EXCEPT ![Len(sockets)] = how]

Destroyed(socket) == socket \in {"errored", "timedout", "released"}

InitRequest ==
  /\ pc = "idle"
  /\ configIndex = 0
  /\ sockets = <<>>
  /\ peer = NoSession
  /\ nodeError = ""
  /\ procs = [p \in ProcIds |-> NoProc]
  /\ output = NoOutput
  /\ parsedCerts = <<>>
  /\ result = NoResult
  /\ thrown = ""

Init == InitRequest /\ certIn = NoCert /\ certOut = NoCert

(***************************************************************************)
(* getCertificateChainWithFallback -> getCertificateChain -> tryConnect    *)
(***************************************************************************)

\* the call: tryConnect(domain, port, timeout, 0) opens the first socket
StartRequest ==
  /\ pc = "idle"
  /\ pc' = "connecting"
  /\ configIndex' = 0
  /\ sockets' = <<"connecting">>
  /\ UNCHANGED <<peer, nodeError, procs, output, parsedCerts, result, thrown,
                 certIn, certOut>>

\* catch (nodeError) at line 439: getGMCertificateChain spawns the NTLS s_client
StartFallback(message) ==
  /\ pc' = "ntls"
  /\ nodeError' = message
  /\ procs' = [procs EXCEPT ![1] = Spawned]

\* an 'error' handler that starts the next profile and leaves the failed
\* socket as it is
SocketErrorNoDestroy ==
  /\ pc = "connecting"
  /\ IF configIndex + 1 >= NumConfigs
     THEN /\ StartFallback("cannot establish TLS connection")
          /\ sockets' = DestroyCurrent("errored")
          /\ UNCHANGED configIndex
     ELSE /\ configIndex' = configIndex + 1
          /\ sockets' = Append(sockets, "connecting")
          /\ UNCHANGED <<pc, nodeError, procs>>
  /\ UNCHANGED <<peer, output, parsedCerts, result, thrown, certIn, certOut>>

\* an 'error' handler that gives up on the native stack at the first error
SocketErrorGiveUp ==
  /\ pc = "connecting"
  /\ StartFallback("cannot establish TLS connection")
  /\ sockets' = DestroyCurrent("errored")
  /\ UNCHANGED <<configIndex, peer, output, parsedCerts, result, thrown, certIn, certOut>>

\* socket.on('error'): destroy, then tryConnect(configIndex + 1), which rejects
\* at once when no profile is left
SocketError ==
  /\ pc = "connecting"
  /\ IF configIndex + 1 >= NumConfigs
     THEN /\ StartFallback("cannot establish TLS connection")
          /\ sockets' = DestroyCurrent("errored")
          /\ UNCHANGED configIndex
     ELSE /\ configIndex' = configIndex + 1
          /\ sockets' = Append(DestroyCurrent("errored"), "connecting")
          /\ UNCHANGED <<pc, nodeError, procs>>
  /\ UNCHANGED <<peer, output, parsedCerts, result, thrown, certIn, certOut>>

\* a 'timeout' handler that moves on to the next profile as the 'error'
\* handler does, and rejects with the timeout only on the last profile
SocketTimeoutTryNext ==
  /\ pc = "connecting"
  /\ IF configIndex + 1 >= NumConfigs
     THEN /\ StartFallback("connection timed out")
          /\ sockets' = DestroyCurrent("timedout")
          /\ UNCHANGED configIndex
     ELSE /\ configIndex' = configIndex + 1
          /\ sockets' = Append(DestroyCurrent("timedout"), "connecting")
          /\ UNCHANGED <<pc, nodeError, procs>>
  /\ UNCHANGED <<peer, output, parsedCerts, result, thrown, certIn, certOut>>

\* socket.on('timeout'): destroy, reject(new Error('connection timed out'))
SocketTimeout ==
  /\ pc = "connecting"
  /\ sockets' = DestroyCurrent("timedout")
  /\ StartFallback("connection timed out")
  /\ UNCHANGED <<configIndex, peer, output, parsedCerts, result, thrown, certIn, certOut>>

\* the secureConnect callback resolves tryConnect; getCertificateChain runs to
\* its return or throw, and its finally destroys the socket
SocketSecureConnect ==
  /\ pc = "connecting"
  /\ \E p \in Peers \cup {NoPeer}, session \in Sessions :
       /\ peer' = p
       /\ sockets' = DestroyCurrent("released")
       /\ IF p = NoPeer
          THEN StartFallback("cannot get certificate information") /\ UNCHANGED result
          ELSE IF WalkThrows(p)
          THEN StartFallback("Invalid time value") /\ UNCHANGED result
          ELSE /\ result' = NativeResult(Domain, Port, p, session)
               /\ pc' = "returned"
               /\ UNCHANGED <<nodeError, procs>>
  /\ UNCHANGED <<configIndex, output, parsedCerts, thrown, certIn, certOut>>

(***************************************************************************)
(* getGMCertificateChain                                                   *)
(***************************************************************************)

\* throw new Error(...) of line 449
ThrowFinal ==
  /\ pc' = "thrown"
  /\ thrown' = "cannot get certificate information, check the domain"

\* certs.map(pem => parsePEMCertificate(pem)): every x509 is spawned at once
SpawnX509(ps, out) ==
  [p \in ProcIds |->
     IF \E i \in 1..Len(out.blocks) : p = X509Proc(i) THEN Spawned ELSE ps[p]]

\* parseOpenSSLOutput: one parsePEMCertificate, and so one x509, per PEM block
StartParsing(out) ==
  /\ pc' = "parsing"
  /\ output' = out
  /\ parsedCerts' = [i \in 1..Len(out.blocks) |-> Pending]

\* line 173: the NTLS attempt gave no certificate data: the generic s_client
StartGeneric == pc' = "generic"

\* an NTLS close after which the generic s_client is run whatever was printed
NTLSCloseThenGeneric ==
  /\ pc = "ntls"
  /\ \E out \in SClientOutputs : output' = out
  /\ StartGeneric
  /\ procs' = [procs EXCEPT ![1] = Closed, ![2] = Spawned]
  /\ UNCHANGED <<configIndex, sockets, peer, nodeError, parsedCerts, result, thrown,
                 certIn, certOut>>

\* the NTLS s_client closes
NTLSClose ==
  /\ pc = "ntls"
  /\ \E out \in SClientOutputs :
       IF HasCertificateData(out)
       THEN /\ StartParsing(out)
            /\ procs' = SpawnX509([procs EXCEPT ![1] = Closed], out)
       ELSE /\ StartGeneric
            /\ procs' = [procs EXCEPT ![1] = Closed, ![2] = Spawned]
            /\ output' = out
            /\ UNCHANGED parsedCerts
  /\ UNCHANGED <<configIndex, sockets, peer, nodeError, result, thrown, certIn, certOut>>

\* the NTLS s_client fails to start, or its timer fires: .catch(() => null)
NTLSFail ==
  /\ pc = "ntls"
  /\ \E how \in {Errored, TimedOut} :
       procs' = [procs EXCEPT ![1] = how, ![2] = Spawned]
  /\ StartGeneric
  /\ UNCHANGED <<configIndex, sockets, peer, nodeError, output, parsedCerts, result,
                 thrown, certIn, certOut>>

\* the generic s_client closes
GenericClose ==
  /\ pc = "generic"
  /\ \E out \in SClientOutputs :
       IF HasCertificateData(out)
       THEN /\ StartParsing(out)
            /\ procs' = SpawnX509([procs EXCEPT ![2] = Closed], out)
            /\ UNCHANGED thrown
       ELSE /\ ThrowFinal
            /\ procs' = [procs EXCEPT ![2] = Closed]
            /\ output' = out
            /\ UNCHANGED parsedCerts
  /\ UNCHANGED <<configIndex, sockets, peer, nodeError, result, certIn, certOut>>

\* the generic s_client fails to start, or its timer fires
GenericFail ==
  /\ pc = "generic"
  /\ \E how \in {Errored, TimedOut} : procs' = [procs EXCEPT ![2] = how]
  /\ ThrowFinal
  /\ UNCHANGED <<configIndex, sockets, peer, nodeError, output, parsedCerts, result,
                 certIn, certOut>>

(***************************************************************************)
(* parseOpenSSLOutput: Promise.all over the blocks                         *)
(***************************************************************************)

\* a Promise.all that a failed parse never lets resolve
AllParsed(certs) == \A i \in 1..Len(certs) : certs[i] \notin {Pending, Null}

\* Promise.all resolves: every parsePEMCertificate promise has settled
AllSettled(certs) == \A i \in 1..Len(certs) : certs[i] # Pending

\* a settling that collects the records in the order the parses settle
SettleBlockInArrivalOrder(i, cert) ==
  LET j     == CHOOSE k \in 1..Len(parsedCerts) :
                 parsedCerts[k] = Pending /\ \A h \in 1..(k - 1) : parsedCerts[h] # Pending
      certs == [parsedCerts EXCEPT ![j] = cert]
  IN  /\ parsedCerts' = certs
      /\ IF AllSettled(certs)
         THEN /\ pc' = "returned"
              /\ result' = WithFallback(TextResult(Domain, Port, certs, output), nodeError)
         ELSE UNCHANGED <<pc, result>>

\* parsePEMCertificate of block i settles with `cert`; when it is the last to
\* settle, Promise.all resolves and the request returns
SettleBlock(i, cert) ==
  LET certs == [parsedCerts EXCEPT ![i] = cert]
  IN  /\ parsedCerts' = certs
      /\ IF AllSettled(certs)
         THEN /\ pc' = "returned"
              /\ result' = WithFallback(TextResult(Domain, Port, certs, output), nodeError)
         ELSE UNCHANGED <<pc, result>>

\* the x509 of block i closes: execOpenSSL resolves, the text is parsed
X509Close(i) ==
  /\ pc = "parsing"
  /\ i \in 1..Len(parsedCerts)
  /\ parsedCerts[i] = Pending
  /\ SettleBlock(i, ParsedPem[output.blocks[i]])
  /\ procs' = [procs EXCEPT ![X509Proc(i)] = Closed]
  /\ UNCHANGED <<configIndex, sockets, peer, nodeError, output, thrown, certIn, certOut>>

\* the x509 of block i fails to start, or its timer fires: execOpenSSL rejects
\* and the catch of parsePEMCertificate returns null
X509Fail(i) ==
  /\ pc = "parsing"
  /\ i \in 1..Len(parsedCerts)
  /\ parsedCerts[i] = Pending
  /\ SettleBlock(i, Null)
  /\ \E how \in {Errored, TimedOut} : procs' = [procs EXCEPT ![X509Proc(i)] = how]
  /\ UNCHANGED <<configIndex, sockets, peer, nodeError, output, thrown, certIn, certOut>>

\* a subprocess killed by its timer closes: clearTimeout and resolve have no effect
LateClose(p) ==
  /\ procs[p].proc = "killed"
  /\ procs' = [procs EXCEPT ![p].proc = "exited"]
  /\ UNCHANGED <<pc, configIndex, sockets, peer, nodeError, output, parsedCerts,
                 result, thrown, certIn, certOut>>

Next ==
  \/ StartRequest
  \/ SocketError
  \/ SocketTimeout
  \/ SocketSecureConnect
  \/ NTLSClose
  \/ NTLSFail
  \/ GenericClose
  \/ GenericFail
  \/ \E i \in 1..MaxBlocks : X509Close(i)
  \/ \E i \in 1..MaxBlocks : X509Fail(i)
  \/ \E p \in ProcIds : LateClose(p)

Spec == Init /\ [][Next]_vars

\* a pending handshake ends in one of its three events, the socket timeout
\* at the latest
SocketEvent == SocketError \/ SocketTimeout \/ SocketSecureConnect

\* an awaited s_client invocation ends in close, error or its timer
SClientEvent == NTLSClose \/ NTLSFail \/ GenericClose \/ GenericFail

\* the guard of X509Close(i) and X509Fail(i), for some block i
X509Pending ==
  pc = "parsing" /\ \E i \in 1..Len(parsedCerts) : parsedCerts[i] = Pending

\* a pending x509 invocation ends in close, error or its timer: weak
\* fairness of the X509Close and X509Fail steps, written with their guard
\* and with their effect, the settling of an entry of parsedCerts
X509Fairness ==
  \/ []<>(~X509Pending)
  \/ []<><<X509Pending /\ parsedCerts' # parsedCerts>>_vars

Fairness ==
  /\ WF_vars(SocketEvent)
  /\ WF_vars(SClientEvent)
  /\ X509Fairness

SpecLive == Spec /\ Fairness

(***************************************************************************)
(* The field classifier on one certificate, from either source: the        *)
(* native certificate objects and the x509 texts below are the inputs.     *)
(***************************************************************************)

\* asn1Curve, modulus.length, bits and pubkey.length of the native certificates
KeyMaterials ==
  { [curve |-> "SM2",                 modulusLength |-> 0, bits |-> 256, pubkeyLength |-> 91],
    [curve |-> "sm2p256v1",           modulusLength |-> 0, bits |-> 0,   pubkeyLength |-> 91],
    [curve |-> "1.2.156.10197.1.301", modulusLength |-> 0, bits |-> 512, pubkeyLength |-> 91],
    [curve |-> "prime256v1",          modulusLength |-> 0, bits |-> 256, pubkeyLength |-> 91],
    [curve |-> "secp384r1",           modulusLength |-> 0, bits |-> 0,   pubkeyLength |-> 120],
    [curve |-> "secp521r1",           modulusLength |-> 0, bits |-> 521, pubkeyLength |-> 158],
    [curve |-> "", modulusLength |-> 512,  bits |-> 2048, pubkeyLength |-> 294],
    [curve |-> "", modulusLength |-> 512,  bits |-> 0,    pubkeyLength |-> 294],
    [curve |-> "", modulusLength |-> 1024, bits |-> 4096, pubkeyLength |-> 550],
    [curve |-> "", modulusLength |-> 0,    bits |-> 0,    pubkeyLength |-> 32],
    [curve |-> "", modulusLength |-> 0,    bits |-> 0,    pubkeyLength |-> 44],
    [curve |-> "", modulusLength |-> 0,    bits |-> 0,    pubkeyLength |-> 0],
    [curve |-> "", modulusLength |-> 0,    bits |-> 1024, pubkeyLength |-> 443] }

\* JSON.stringify(cert.infoAccess)
InfoAccesses ==
  { "{}", "{OCSP - URI:[http://ocsp.example]}",
    "{CA Issuers - URI:[http://ca.example/2.23.140.1.1.crt]}",
    "{OCSP - URI:[http://ocsp.example/1.3.6.1.4.1.4146.1.1]}" }

NativeSubjects ==
  { [NoDN EXCEPT !.CN = "a.example", !.O = o, !.L = l, !.ST = st, !.S = st2, !.C = c,
                 !.businessCategory = bc, !.serialNumber = sn] :
      o \in {"", "Acme Corp"}, l \in {"", "Berlin"}, st \in {"", "BE"}, st2 \in {"", "BE"},
      c \in {"", "DE"}, bc \in {"", "Private Organization"}, sn \in {"", "HRB 1"} }

NativeInputs ==
  { [path |-> "native",
     cert |-> RawCert(subj, [NoDN EXCEPT !.CN = "Example CA"], k.curve, k.modulusLength,
                      k.bits, k.pubkeyLength, ia, "Jan 1 00:00:00 2024 GMT")] :
      subj \in NativeSubjects, k \in KeyMaterials, ia \in InfoAccesses }

TextSubjects ==
  { "", "CN=a.example", "O=Acme Corp", "C=DE,O=Acme Corp,CN=a.example",
    "C=DE,ST=BE,L=Berlin,O=Acme Corp,businessCategory=Private Organization,serialNumber=HRB 1,CN=a.example" }

TextInputs ==
  { [path |-> "text",
     text |-> X509Text(subj, "C=US,O=Example Trust,CN=Example CA", "AA:01", ks, curve,
                       pka, sa, "DNS:a.example", other)] :
      subj \in TextSubjects,
      ks \in {0, 256, 2048},
      curve \in {"", "SM2", "prime256v1"},
      pka \in {"", "rsaEncryption", "id-ecPublicKey", "dsaEncryption", "ED25519"},
      sa \in {"sha256WithRSAEncryption", "ecdsa-with-SHA256", "SM2-with-SM3"},
      other \in {"", "Policy: 2.23.140.1.1"} }

InitFields ==
  /\ InitRequest
  /\ certIn \in NativeInputs \cup TextInputs
  /\ certOut = NoCert

\* parseCertificate(cert) on a certificate of the native stack
ClassifyNative ==
  /\ certOut = NoCert
  /\ certIn.path = "native"
  /\ certOut' = parseCertificate(certIn.cert)
  /\ UNCHANGED <<requestVars, certIn>>

\* parsePEMCertificate(pem) on the text the toolkit printed for a block
ClassifyText ==
  /\ certOut = NoCert
  /\ certIn.path = "text"
  /\ certOut' = parsePEMCertificate("-----BEGIN CERTIFICATE-----", certIn.text)
  /\ UNCHANGED <<requestVars, certIn>>

NextFields == ClassifyNative \/ ClassifyText

SpecFields == InitFields /\ [][NextFields]_vars

(***************************************************************************)
(* Properties                                                              *)
(***************************************************************************)

\* the native path failed: no session, no peer certificate, or a certificate
\* the parser throws on
NativeFailed == peer = NoSession \/ peer = NoPeer \/ peer \in BadTimePeers

\* the message of the native failure, as far as the state tells it
NativeFailureMessages ==
  IF peer = NoPeer THEN {"cannot get certificate information"}
  ELSE IF peer \in BadTimePeers THEN {"Invalid time value"}
  ELSE IF \E i \in 1..Len(sockets) : sockets[i] = "timedout" THEN {"connection timed out"}
  ELSE {"cannot establish TLS connection"}

\* C1: when the native path failed and the toolkit yielded certificate data,
\* the ChainResult returned has fallback = true and a non-empty fallbackReason
\* that is the native failure message; a ChainResult of the native path has
\* no fallback flag.
C1_FallbackProvenance ==
  pc = "returned" =>
    IF NativeFailed
    THEN /\ "fallback" \in DOMAIN result /\ result.fallback = TRUE
         /\ "fallbackReason" \in DOMAIN result
         /\ result.fallbackReason # ""
         /\ result.fallbackReason \in NativeFailureMessages
    ELSE /\ "fallback" \notin DOMAIN result
         /\ "fallbackReason" \notin DOMAIN result

\* C1 witness: every profile failed, the toolkit gave a chain, and the
\* result carries the flag and the reason
C1_Witness ==
  /\ pc = "returned"
  /\ Len(sockets) = NumConfigs /\ \A i \in 1..Len(sockets) : sockets[i] = "errored"
  /\ "fallback" \in DOMAIN result /\ result.fallback
  /\ result.fallbackReason = "cannot establish TLS connection"
  /\ Len(result.certificates) >= 2

\* C2: every ChainResult has at most 10 certificates.
C2_ChainAtMostTen ==
  pc = "returned" => Len(result.certificates) <= 10

NumLeaves(certificates) ==
  Cardinality({ i \in 1..Len(certificates) : certificates[i].type = "leaf" })

\* C3: every ChainResult has exactly one certificate of type leaf, unless it
\* is a single certificate of type self-signed.
C3_ExactlyOneLeaf ==
  pc = "returned" =>
    \/ NumLeaves(result.certificates) = 1
    \/ /\ Len(result.certificates) = 1
       /\ result.certificates[1].type = "self-signed"

\* the chain is one certificate whose subject and issuer commonName are equal
SingleSameName(certificates) ==
  /\ Len(certificates) = 1
  /\ "commonName" \in DOMAIN certificates[1].subject
  /\ "commonName" \in DOMAIN certificates[1].issuer
  /\ certificates[1].subject.commonName = certificates[1].issuer.commonName

\* C4: isSelfSigned is true iff the chain is one certificate whose subject
\* commonName equals its issuer commonName; exactly then the entry has type
\* self-signed, a single certificate with differing names has type leaf, and
\* isSelfSigned implies a chain of length 1.
C4_SelfSignedIff ==
  pc = "returned" =>
    LET certificates == result.certificates
    IN  /\ result.isSelfSigned = SingleSameName(certificates)
        /\ \A i \in 1..Len(certificates) :
             (certificates[i].type = "self-signed") = SingleSameName(certificates)
        /\ (Len(certificates) = 1 /\ ~SingleSameName(certificates)
              => certificates[1].type = "leaf")
        /\ (result.isSelfSigned => Len(certificates) = 1)

\* C4 witness: the toolkit path returns a single self-issued certificate
C4_Witness ==
  /\ pc = "returned"
  /\ "fallback" \in DOMAIN result
  /\ result.isSelfSigned
  /\ Len(result.certificates) = 1
  /\ result.certificates[1].type = "self-signed"
  /\ result.certificates[1].subject.commonName = "self.example"

\* C5: no two adjacent certificates of a ChainResult have the same
\* fingerprint256.
C5_NoAdjacentDuplicate ==
  pc = "returned" =>
    \A i \in 1..(Len(result.certificates) - 1) :
       result.certificates[i].fingerprint256 # result.certificates[i + 1].fingerprint256

\* a certificate of the chain, or the toolkit's session, indicates national
\* cryptography
GMIndicated ==
  \/ \E i \in 1..Len(result.certificates) : result.certificates[i].publicKey.type = "SM2"
  \/ /\ output # NoOutput
     /\ \E word \in {"NTLS", "GMTLS", "GMSSL"} : Includes(output.stderr, word)

\* C6: isGMSSL is true iff a certificate of the chain or the session
\* indicates national cryptography, on either path.
C6_GMFlagIff ==
  pc = "returned" =>
    (("isGMSSL" \in DOMAIN result /\ result.isGMSSL = TRUE) <=> GMIndicated)

\* the fields of a CertificateRecord and of its nested objects, and the
\* shape of its subjectAltNames entries
CertShape(cert) ==
  [fields             |-> DOMAIN cert,
   subject            |-> DOMAIN cert.subject,
   issuer             |-> DOMAIN cert.issuer,
   publicKey          |-> DOMAIN cert.publicKey,
   signatureAlgorithm |-> DOMAIN cert.signatureAlgorithm,
   validationLevel    |-> DOMAIN cert.validationLevel]

\* the fields of a ChainResult other than the fallback provenance
ResultShape(res) ==
  [fields |-> DOMAIN res \ {"fallback", "fallbackReason"},
   cipher |-> DOMAIN res.cipher]

\* a ChainResult of the native path
NativeSample ==
  NativeResult(Domain, Port, [len |-> 2, tail |-> 2, leaf |-> "rsa", ca |-> "rsaCA"],
               CHOOSE session \in Sessions : session.authorized)

\* C7: a ChainResult and its CertificateRecords have the same fields
\* whichever path produced them, fallback and fallbackReason apart.
C7_SameShape ==
  pc = "returned" =>
    /\ ResultShape(result) = ResultShape(NativeSample)
    /\ \A i \in 1..Len(result.certificates) :
         CertShape(result.certificates[i]) = CertShape(NativeSample.certificates[1])

\* C10 as claimed: an attempt that timed out under a profile that is not the
\* last one is followed by an attempt under the next profile.
C10_TimeoutTriesNextProfile ==
  /\ \A i \in 1..Len(sockets) :
       sockets[i] = "timedout" /\ i < NumConfigs => Len(sockets) > i
  /\ (nodeError = "connection timed out" => Len(sockets) = NumConfigs)

\* C10 as amended: under every profile a handshake attempt that exceeds the
\* timeout is aborted (its socket destroyed) and ends tryConnect with the
\* timeout as its error: no later profile is attempted.
C10_TimeoutIsTerminal ==
  \A i \in 1..Len(sockets) :
     sockets[i] = "timedout" =>
       /\ i = Len(sockets)
       /\ pc # "connecting"
       /\ nodeError = "connection timed out"
       /\ \A j \in 1..Len(sockets) : Destroyed(sockets[j])

\* C10 witness: the first profile timed out and the request went on to the
\* toolkit without another handshake attempt
C10_Witness ==
  /\ sockets = <<"timedout">>
  /\ pc = "ntls"
  /\ nodeError = "connection timed out"

\* what the certificate given to the classifier exposes
ExposesSM2Curve ==
  IF certIn.path = "native"
  THEN certIn.cert.asn1Curve \in {"SM2", "sm2p256v1", "1.2.156.10197.1.301"}
  ELSE certIn.text.curve \in {"SM2", "sm2p256v1", "1.2.156.10197.1.301"}

Exposes2048BitModulus ==
  IF certIn.path = "native"
  THEN certIn.cert.asn1Curve = "" /\ certIn.cert.modulusLength * 4 = 2048
  ELSE /\ certIn.text.curve = "" /\ certIn.text.pubKeyAlgo = "rsaEncryption"
       /\ certIn.text.keySize = 2048 /\ certIn.text.sigAlgo = "sha256WithRSAEncryption"

ExposesNoKey ==
  IF certIn.path = "native"
  THEN /\ certIn.cert.asn1Curve = "" /\ certIn.cert.modulusLength = 0
       /\ certIn.cert.pubkeyLength \notin {32, 44}
  ELSE /\ certIn.text.curve = "" /\ certIn.text.pubKeyAlgo \in {"", "dsaEncryption"}
       /\ certIn.text.sigAlgo = "sha256WithRSAEncryption"

\* C8: from either source, an SM2-family curve classifies as SM2 with 256
\* bits, a 2048-bit modulus as RSA with 2048 bits, and a certificate with no
\* curve, no modulus and no 32/44-byte raw key as Unknown.
C8_KeyClassification ==
  certOut # NoCert =>
    /\ (ExposesSM2Curve =>
          certOut.publicKey.type = "SM2" /\ certOut.publicKey.bits = 256)
    /\ (Exposes2048BitModulus =>
          certOut.publicKey.type = "RSA" /\ certOut.publicKey.bits = 2048)
    /\ (ExposesNoKey => certOut.publicKey.type = "Unknown")

\* the subject fields and auxiliary data of the certificate given
GivenSubjectHas(field) ==
  IF certIn.path = "native"
  THEN certIn.cert.subject[field] # ""
  ELSE Includes(certIn.text.subject, field \o "=")

GivenEVOID ==
  IF certIn.path = "native"
  THEN \E oid \in {"2.23.140.1.1", "1.3.6.1.4.1.4146.1.1"} :
          Includes(certIn.cert.infoAccess, oid)
  ELSE Includes(certIn.text.other, "2.23.140.1.1")

ExpectedLevel ==
  IF \/ GivenEVOID
     \/ /\ GivenSubjectHas("O") /\ GivenSubjectHas("L") /\ GivenSubjectHas("C")
        /\ (GivenSubjectHas("ST") \/ GivenSubjectHas("S"))
        /\ (GivenSubjectHas("businessCategory") \/ GivenSubjectHas("serialNumber"))
  THEN "EV"
  ELSE IF GivenSubjectHas("O") THEN "OV"
  ELSE "DV"

\* C9: from either source, the level is EV iff a known EV policy OID occurs
\* in the auxiliary data or the subject has full organizational fields with
\* a business category or serial number; else OV iff it has an organization;
\* else DV.
C9_ValidationLevel ==
  certOut # NoCert => certOut.validationLevel.level = ExpectedLevel

\* a subprocess of the toolkit was spawned in this request
ToolkitSpawned == \E p \in ProcIds : procs[p] # NoProc

\* tryConnect rejected: no handshake is in flight and none succeeded
StrategistFailed ==
  \A i \in 1..Len(sockets) : sockets[i] \in {"errored", "timedout"}

\* C11 as claimed: the toolkit is spawned only when tryConnect failed, never
\* in a request in which a handshake succeeded.
C11_ToolkitOnlyAfterStrategistFails ==
  ToolkitSpawned => StrategistFailed

\* C11 as amended: the toolkit is spawned only after the native path
\* (getCertificateChain) failed, by tryConnect rejecting or, after a
\* successful handshake, by an empty peer certificate or a parser exception;
\* never while a handshake is in flight, and never in a request whose native
\* path returned a ChainResult.
C11_ToolkitOnlyAfterNativeFailure ==
  /\ ToolkitSpawned =>
        /\ sockets # <<>>
        /\ \A i \in 1..Len(sockets) : Destroyed(sockets[i])
        /\ \A i \in 1..(Len(sockets) - 1) : sockets[i] = "errored"
        /\ LET last == sockets[Len(sockets)]
           IN  \/ /\ last = "errored" /\ Len(sockets) = NumConfigs
                  /\ nodeError = "cannot establish TLS connection"
               \/ /\ last = "timedout"
                  /\ nodeError = "connection timed out"
               \/ /\ last = "released" /\ peer = NoPeer
                  /\ nodeError = "cannot get certificate information"
               \/ /\ last = "released" /\ peer \in BadTimePeers
                  /\ nodeError = "Invalid time value"
  /\ (pc = "returned" /\ "fallback" \notin DOMAIN result => ~ToolkitSpawned)

\* C11 witness: the first handshake succeeded, the session gave an empty peer
\* certificate, and the NTLS s_client is running
C11_Witness ==
  /\ sockets = <<"released">>
  /\ peer = NoPeer
  /\ pc = "ntls"
  /\ procs[1] = Spawned

\* C12: the profiles are attempted in list order with at most one handshake
\* in flight: the socket of profile i + 1 exists only when those of profiles
\* 0..i failed and were destroyed, a successful handshake is the last
\* attempt of the request, and when every profile failed tryConnect has
\* rejected with the connection error.
C12_ProfilesInOrder ==
  /\ Len(sockets) <= NumConfigs
  /\ Cardinality({ i \in 1..Len(sockets) : sockets[i] = "connecting" }) <= 1
  /\ \A i \in 1..(Len(sockets) - 1) : sockets[i] = "errored"
  /\ (pc = "connecting" <=>
        sockets # <<>> /\ sockets[Len(sockets)] = "connecting")
  /\ (pc = "connecting" => configIndex = Len(sockets) - 1)
  /\ (Len(sockets) = NumConfigs /\ sockets[NumConfigs] = "errored" =>
        nodeError = "cannot establish TLS connection" /\ procs[1] # NoProc)
  /\ (nodeError = "cannot establish TLS connection" =>
        Len(sockets) = NumConfigs /\ \A i \in 1..NumConfigs : sockets[i] = "errored")

\* C12 witness: the first two profiles failed and the third handshake
\* succeeded and gave the result
C12_Witness ==
  /\ sockets = <<"errored", "errored", "released">>
  /\ pc = "returned"
  /\ "fallback" \notin DOMAIN result

\* the invocation p settled in this step with certificate data
YieldsData(p) == procs'[p] = Closed /\ HasCertificateData(output')

\* one step of the request, as getGMCertificateChain allows it
GMStep ==
  /\ (procs[1] = NoProc /\ procs'[1] # NoProc => procs'[2] = NoProc)
  /\ (procs[2] = NoProc /\ procs'[2] # NoProc =>
        pc = "ntls" /\ procs'[1] \in {Closed, Errored, TimedOut} /\ ~YieldsData(1))
  /\ (pc = "ntls" /\ pc' # "ntls" =>
        IF YieldsData(1)
        THEN pc' = "parsing" /\ procs'[2] = NoProc
        ELSE pc' = "generic" /\ procs'[2] = Spawned)
  /\ (pc = "generic" /\ pc' # "generic" =>
        IF YieldsData(2)
        THEN pc' = "parsing"
        ELSE pc' = "thrown" /\ thrown' # "" /\ result' = NoResult /\ parsedCerts' = <<>>)
  /\ (pc = "thrown" =>
        /\ pc' = "thrown" /\ result' = NoResult /\ sockets' = sockets
        /\ \A p \in ProcIds : procs[p] = NoProc => procs'[p] = NoProc)

\* C13: the NTLS s_client is invoked first; the generic one is invoked iff
\* the NTLS invocation failed or printed no certificate data; when neither
\* yields certificate data the request fails with an error, without a
\* ChainResult and without any further attempt.
C13_NTLSThenGeneric == [][GMStep]_vars

\* C13 witness: both s_client invocations closed without certificate data
\* and the request failed
C13_Witness ==
  /\ pc = "thrown"
  /\ procs[1] = Closed /\ procs[2] = Closed
  /\ ~HasCertificateData(output)
  /\ result = NoResult

\* the invocation p counts as failed for its caller: the generic s_client
\* follows a failed NTLS one, the request fails with a failed generic one,
\* and the block of a failed x509 is null
CountsAsFailed(p) ==
  CASE p = 1 -> procs[2] # NoProc
    [] p = 2 -> pc = "thrown" /\ result = NoResult
    [] OTHER -> parsedCerts[p - 2] = Null

\* every invocation whose timer fired was killed and is rejected, and no
\* subprocess runs once its invocation has settled
ExecSettled ==
  \A p \in ProcIds :
    /\ (procs[p].timer = "fired" =>
          /\ procs[p].proc \in {"killed", "exited"}
          /\ procs[p].promise = "rejected")
    /\ (procs[p].promise # "pending" => procs[p].proc # "running")
    /\ (procs[p].promise = "pending" => procs[p] \in {NoProc, Spawned})
    /\ (procs[p].promise = "rejected" => CountsAsFailed(p))

\* the timer fires only on a subprocess that has not closed, and a settled
\* invocation stays as it settled
ExecStep ==
  \A p \in ProcIds :
    /\ (procs[p].timer # "fired" /\ procs'[p].timer = "fired" =>
          procs[p] = Spawned /\ procs'[p] = TimedOut)
    /\ (procs[p].promise \in {"rejected", "resolved"} =>
          procs'[p].promise = procs[p].promise /\ procs'[p].timer = procs[p].timer)

\* C14: an execOpenSSL invocation whose subprocess has not closed when its
\* timer fires is killed and rejected; no subprocess runs after its
\* invocation settled, and a close arriving after the timeout leaves the
\* invocation failed.
C14_TimeoutKills == []ExecSettled /\ [][ExecStep]_vars

\* C14 witness: the NTLS s_client and the x509 of the first block were killed
\* by their timers, and the killed s_client has closed since
C14_Witness ==
  /\ procs[1].timer = "fired" /\ procs[1].proc = "exited"
  /\ procs[1].promise = "rejected"
  /\ procs[X509Proc(1)] = TimedOut
  /\ parsedCerts[1] = Null

\* the x509 invocation of block i resolved
BlockParsed(i) == procs[X509Proc(i)].promise = "resolved"

\* the positions of the blocks whose parse succeeded, in output order
ParsedBlocks ==
  SelectSeq([i \in 1..Len(output.blocks) |-> i], BlockParsed)

\* a record without the position fields parseOpenSSLOutput adds
WithoutType(cert) == [f \in DOMAIN cert \ {"type", "typeName"} |-> cert[f]]

\* C15: whatever the order in which the x509 invocations settle, and
\* whichever of them fail, the request returns, and its certificates are the
\* records of exactly the blocks whose parse succeeded, in the order of the
\* PEM blocks in the output.
C15_ParsedBlocksInOrder ==
  /\ (pc = "parsing" => \E i \in 1..Len(output.blocks) : procs[X509Proc(i)] = Spawned)
  /\ (pc = "returned" /\ "fallback" \in DOMAIN result =>
        /\ Len(result.certificates) = Len(ParsedBlocks)
        /\ \A n \in 1..Len(ParsedBlocks) :
             WithoutType(result.certificates[n])
               = ParsedPem[output.blocks[ParsedBlocks[n]]])

\* C15 witness: of three different blocks the second failed, and the result
\* holds the first and the third
C15_Witness ==
  /\ pc = "returned"
  /\ output.blocks = <<"self", "sm2", "garbled">>
  /\ procs[X509Proc(2)].promise = "rejected"
  /\ Len(result.certificates) = 2
  /\ result.certificates[1].rawPEM = PemOfKind("self")
  /\ result.certificates[2].rawPEM = PemOfKind("garbled")

\* the request returned the ChainResult of the native path
NativeReturned == pc = "returned" /\ "fallback" \notin DOMAIN result

\* C16: for every issuer graph, cyclic or not, the walk ends with each
\* fingerprint256 collected at most once and with at most 10 entries.
C16_WalkWithinTen ==
  NativeReturned =>
    /\ \A i, j \in 1..Len(result.certificates) :
         i # j => result.certificates[i].fingerprint256 # result.certificates[j].fingerprint256
    /\ Len(result.certificates) <= 10

\* the issuer link of the certificate object i is absent or points to i
IssuerAbsentOrSelf(i) == IssuerCertificate(peer, i) \in {0, i}

\* C17: in a native result entry n is the n-th certificate of the issuer
\* path; the first is leaf (self-signed under the rule of C4), a later one
\* is root when its issuer link is absent or points to itself and
\* intermediate otherwise; root occurs only at the last index, and a chain
\* of three that ends in a self-issued certificate is leaf, intermediate,
\* root.
C17_NativeTypes ==
  NativeReturned =>
    LET certificates == result.certificates
        n            == Len(certificates)
    IN  /\ n >= 1
        /\ \A i \in 1..n : certificates[i].fingerprint256 = CertAt(peer, i).fingerprint256
        /\ certificates[1].type = IF result.isSelfSigned THEN "self-signed" ELSE "leaf"
        /\ \A i \in 2..n :
             certificates[i].type = IF IssuerAbsentOrSelf(i) THEN "root" ELSE "intermediate"
        /\ \A i \in 1..n : certificates[i].type = "root" => i = n
        /\ (peer.len = 3 /\ peer.tail = 3 =>
              [i \in 1..n |-> certificates[i].type] = <<"leaf", "intermediate", "root">>)

\* C17 witness: a chain of three whose last certificate is its own issuer
C17_Witness ==
  /\ NativeReturned
  /\ peer.len = 3 /\ peer.tail = 3
  /\ Len(result.certificates) = 3
  /\ result.certificates[3].type = "root"

\* the request returned the ChainResult of the toolkit path
ToolkitReturned == pc = "returned" /\ "fallback" \in DOMAIN result

\* C18: in a toolkit result with n >= 2 certificates, those that survived
\* the dropping of failed blocks, the first is leaf, the last is root and
\* the others are intermediate; a single survivor is leaf or self-signed.
C18_ToolkitTypes ==
  ToolkitReturned =>
    LET certificates == result.certificates
        n            == Len(certificates)
    IN  /\ n = Len(ParsedBlocks)
        /\ (n >= 2 =>
              /\ certificates[1].type = "leaf"
              /\ certificates[n].type = "root"
              /\ \A i \in 2..(n - 1) : certificates[i].type = "intermediate")
        /\ (n = 1 =>
              certificates[1].type = IF result.isSelfSigned THEN "self-signed" ELSE "leaf")

\* C18 witness: the first of three blocks was dropped, and the second and
\* third are leaf and root
C18_Witness ==
  /\ ToolkitReturned
  /\ Len(output.blocks) = 3
  /\ parsedCerts[1] = Null
  /\ Len(result.certificates) = 2
  /\ result.certificates[1].type = "leaf"
  /\ result.certificates[2].type = "root"

\* C19: every socket of a failed or timed-out attempt is destroyed, the
\* socket of the successful handshake is destroyed when getCertificateChain
\* returns or throws, and no socket is open once the request has left
\* tryConnect, in particular once it has settled.
C19_SocketsDestroyed ==
  /\ \A i \in 1..(Len(sockets) - 1) : Destroyed(sockets[i])
  /\ (pc \notin {"idle", "connecting"} =>
        sockets # <<>> /\ \A i \in 1..Len(sockets) : Destroyed(sockets[i]))
  /\ (peer # NoSession => sockets[Len(sockets)] = "released")

\* C19 witness: after a failed attempt a handshake succeeded, the session
\* gave an empty peer certificate, and the request has failed
C19_Witness ==
  /\ pc = "thrown"
  /\ sockets = <<"errored", "released">>
  /\ peer = NoPeer

\* the request has settled, with a ChainResult or with an error
Settled ==
  \/ pc = "returned" /\ result # NoResult /\ thrown = ""
  \/ pc = "thrown" /\ thrown # "" /\ result = NoResult

\* C20: every call of getCertificateChainWithFallback eventually settles,
\* with a ChainResult or with an error, whatever handshake errors,
\* timeouts, subprocess failures and parse failures occur.
C20_RequestSettles == (pc # "idle") ~> Settled

\* C20 witness: the request settled after a handshake timeout, an NTLS
\* s_client killed by its timer and a failed block parse
C20_Witness ==
  /\ Settled
  /\ sockets[Len(sockets)] = "timedout"
  /\ procs[1].timer = "fired"
  /\ \E i \in 1..Len(parsedCerts) : parsedCerts[i] = Null

=============================================================================
